---- MODULE Spec2Model ----
(***************************************************************************)
(* plsreadme: anchor ids of a rendered document, the document version      *)
(* chain, comment creation and the grouped comment sidebar.                *)
(*                                                                         *)
(* Text is modelled as a sequence of one-character strings, so that the    *)
(* regular-expression pipelines of the source are computed character by    *)
(* character.                                                              *)
(***************************************************************************)
EXTENDS Integers, Sequences, FiniteSets, TLC

VARIABLES
    html,       \* anchor pass: the matches of the `eligible` regex, in document order
    used,       \* anchor pass: Map<string, number> of addStableAnchorIds
    ids,        \* anchor pass: the id attribute each processed match ends with
    docs,       \* D1 table docs: document id -> row
    bucket,     \* R2 bucket DOCS_BUCKET: key -> stored markdown
    comments,   \* D1 table comments: the rows, in insertion order
    clock,      \* Date.now(), in ticks
    pub,        \* the POST /api/render request in flight
    ed,         \* the commit_edit calls in flight
    cm,         \* the POST /api/comments/:docId requests in flight
    resp,       \* the response sent last
    edCalls,    \* commit_edit calls issued so far
    edLog,      \* the successful commit_edit calls, in commit order
    view,       \* the page a reader has open: its elements, allComments and the sidebar
    req,        \* the request observed last: what the caller sent
    passes,     \* anchor pass: the render passes completed, each with its html and ids
    slugIn,     \* slug generator: the argument of slugifyAnchorText
    slugOut,    \* slug generator: what it returned
    records     \* MCP client: the DocRecord[] in the .plsreadme file

anchorVars == <<html, used, ids, passes, slugIn, slugOut>>
storeVars  == <<docs, bucket, comments, clock>>
procVars   == <<pub, ed, cm>>
obsVars    == <<resp, edLog, edCalls>>

(***************************************************************************)
(* Characters and strings                                                  *)
(***************************************************************************)
LowerSeq == <<"a","b","c","d","e","f","g","h","i","j","k","l","m",
              "n","o","p","q","r","s","t","u","v","w","x","y","z">>
UpperSeq == <<"A","B","C","D","E","F","G","H","I","J","K","L","M",
              "N","O","P","Q","R","S","T","U","V","W","X","Y","Z">>
Lower == {LowerSeq[i] : i \in 1..26}
Upper == {UpperSeq[i] : i \in 1..26}
Digit == {"0","1","2","3","4","5","6","7","8","9"}
DigitSeq == <<"0","1","2","3","4","5","6","7","8","9">>
Space == {" ", "\t", "\n"}

Min(a, b) == IF a < b THEN a ELSE b

\* String.prototype.toLowerCase on one character
LowerChar(c) ==
    IF c \in Upper THEN LowerSeq[CHOOSE i \in 1..26 : UpperSeq[i] = c] ELSE c

toLowerCase(s) == [i \in 1..Len(s) |-> LowerChar(s[i])]

\* String.prototype.trim
RECURSIVE trimStart(_)
trimStart(s) ==
    IF s # <<>> /\ s[1] \in Space THEN trimStart(Tail(s)) ELSE s

RECURSIVE trimEnd(_)
trimEnd(s) ==
    IF s # <<>> /\ s[Len(s)] \in Space THEN trimEnd(SubSeq(s, 1, Len(s) - 1)) ELSE s

trim(s) == trimEnd(trimStart(s))

\* String.prototype.slice(0, n)
slice0(s, n) == SubSeq(s, 1, Min(Len(s), n))

\* last index of the maximal run of characters of `class` starting at k (k-1: none)
RECURSIVE RunEnd(_, _, _)
RunEnd(s, k, class) ==
    IF k <= Len(s) /\ s[k] \in class THEN RunEnd(s, k + 1, class) ELSE k - 1

\* s.replace(/[class]+/g, rep): every maximal run of `class` becomes rep
RECURSIVE ReplaceRuns(_, _, _)
ReplaceRuns(s, class, rep) ==
    IF s = <<>> THEN <<>>
    ELSE IF s[1] \in class
         THEN rep \o ReplaceRuns(SubSeq(s, RunEnd(s, 1, class) + 1, Len(s)), class, rep)
         ELSE <<s[1]>> \o ReplaceRuns(Tail(s), class, rep)

\* s.replace(/[^keep]/g, " ")
ReplaceOutside(s, keep) == [i \in 1..Len(s) |-> IF s[i] \in keep THEN s[i] ELSE " "]

\* s.replace(/&[a-z0-9#]+;/gi, " ")
RECURSIVE ReplaceEntities(_)
ReplaceEntities(s) ==
    IF s = <<>> THEN <<>>
    ELSE LET j == RunEnd(s, 2, Lower \cup Upper \cup Digit \cup {"#"})
         IN  IF s[1] = "&" /\ j >= 2 /\ j < Len(s) /\ s[j + 1] = ";"
             THEN <<" ">> \o ReplaceEntities(SubSeq(s, j + 2, Len(s)))
             ELSE <<s[1]>> \o ReplaceEntities(Tail(s))

\* index of the first ">" at or after k (0: none)
RECURSIVE FindClose(_, _)
FindClose(s, k) ==
    IF k > Len(s) THEN 0 ELSE IF s[k] = ">" THEN k ELSE FindClose(s, k + 1)

\* s.replace(/<[^>]*>/g, " ")
RECURSIVE ReplaceTags(_)
ReplaceTags(s) ==
    IF s = <<>> THEN <<>>
    ELSE LET j == FindClose(s, 2)
         IN  IF s[1] = "<" /\ j > 0
             THEN <<" ">> \o ReplaceTags(SubSeq(s, j + 1, Len(s)))
             ELSE <<s[1]>> \o ReplaceTags(Tail(s))

\* faulty variant: the hyphens at the edges are left in place
KeepEdgeHyphens(s) == s

\* s.replace(/^-|-$/g, "")
StripEdgeHyphens(s) ==
    LET a == IF s # <<>> /\ s[1] = "-" THEN Tail(s) ELSE s
    IN  IF a # <<>> /\ a[Len(a)] = "-" THEN SubSeq(a, 1, Len(a) - 1) ELSE a

\* Number -> decimal string, as a template literal prints it
RECURSIVE DecStr(_)
DecStr(n) ==
    IF n < 10 THEN <<DigitSeq[n + 1]>> ELSE DecStr(n \div 10) \o <<DigitSeq[(n % 10) + 1]>>

(***************************************************************************)
(* Slug generator and anchor assigner                                      *)
(***************************************************************************)
SlugFallback == <<"n","o","d","e">>

slugifyAnchorText(text) ==
    LET stripped ==
            StripEdgeHyphens(
              ReplaceRuns(
                ReplaceRuns(
                  ReplaceOutside(ReplaceEntities(toLowerCase(text)),
                                 Lower \cup Digit \cup Space \cup {"-"}),
                  Space, <<"-">>),
                {"-"}, <<"-">>))
    IN  IF stripped # <<>> THEN stripped ELSE SlugFallback

\* .slice(0, 80) of the flattened text
MaxAnchorText == 80

\* h[1-6]|p|li|blockquote|pre
EligibleTags ==
    { <<"h","1">>, <<"h","2">>, <<"h","3">>, <<"h","4">>, <<"h","5">>, <<"h","6">>,
      <<"p">>, <<"l","i">>, <<"b","l","o","c","k","q","u","o","t","e">>, <<"p","r","e">> }

\* the value of an attrs string that carries no id attribute
NoId == <<>>

\* the flattened text of a match's inner html
FlattenInner(inner) ==
    slice0(trim(ReplaceRuns(ReplaceTags(inner), Space, <<" ">>)), MaxAnchorText)

\* the base slug of a match: slugifyAnchorText(text || tag)
BaseSlug(node) ==
    LET text == FlattenInner(node.inner)
    IN  slugifyAnchorText(IF text # <<>> THEN text ELSE node.tag)

\* faulty variant: one counter for all base slugs
UsedGetAny(u, base) == Cardinality(DOMAIN u)

UsedGet(u, base) == IF base \in DOMAIN u THEN u[base] ELSE 0

\* faulty variant: the suffix counts the earlier occurrences only
SuffixedIdBefore(base, count) ==
    IF count = 1 THEN base ELSE base \o <<"-">> \o DecStr(count - 1)

\* count === 1 ? base : `${base}-${count}`
SuffixedId(base, count) ==
    IF count = 1 THEN base ELSE base \o <<"-">> \o DecStr(count)

\* the replace callback on one match: [used, id] after it
AssignNode(u, node) ==
    IF node.attrId # NoId
    THEN [used |-> u, id |-> node.attrId]
    ELSE LET base  == BaseSlug(node)
             count == UsedGet(u, base) + 1
         IN  [used |-> (base :> count) @@ u, id |-> SuffixedId(base, count)]

\* addStableAnchorIds as a fold: the ids of all matches, in order
RECURSIVE AssignFrom(_, _, _)
AssignFrom(u, nodes, k) ==
    IF k > Len(nodes) THEN <<>>
    ELSE LET r == AssignNode(u, nodes[k])
         IN  <<r.id>> \o AssignFrom(r.used, nodes, k + 1)

\* faulty variant: the counters of the pass before are kept
UsedKept(u) == u

\* const used = new Map(): whatever an earlier call counted, a call starts empty
FreshUsed(u) == <<>>

addStableAnchorIds(nodes) == AssignFrom(<<>>, nodes, 1)

(***************************************************************************)
(* Bounded inputs of the anchor pass                                       *)
(***************************************************************************)
MaxNodes == 3

T_Intro  == <<"I","n","t","r","o">>
T_Intro2 == <<"I","n","t","r","o"," ","2">>
T_Punct  == <<"?","!">>
T_Blank  == <<" ">>
T_Amp    == <<"<","b",">","a","<","/","b",">","&","a","m","p",";">>

ModelTags  == { <<"p">>, <<"h","1">> }
ModelTexts == { T_Intro, T_Intro2, T_Punct, T_Blank, T_Amp }

ModelNodes ==
    { [tag |-> t, attrId |-> NoId, inner |-> x] : t \in ModelTags, x \in ModelTexts }
    \cup { [tag |-> <<"h","1">>, attrId |-> <<"t","o","c">>, inner |-> T_Intro] }

ModelHtml == UNION { [1..n -> ModelNodes] : n \in 0..MaxNodes }

\* the content of another document, rendered between two renders of the first
OtherHtml == << [tag |-> <<"p">>, attrId |-> NoId, inner |-> T_Intro] >>

MaxPasses == 2      \* later calls of addStableAnchorIds that are recorded


(***************************************************************************)
(* Stores, documents and requests                                          *)
(***************************************************************************)
NumEditors    == 2      \* concurrent commit_edit calls
MaxClock      == 1      \* ticks the clock may advance
MaxAttempts   == 2      \* compare-and-swap attempts of one commit_edit
MaxCalls      == 3      \* commit_edit calls issued in all
MaxViews      == 2      \* page views counted on one document

Editors    == 1..NumEditors
\* the comment posts in flight beside the edits
Commenters == {1}

\* 60 * 60 * 1000 ms, in ticks of half an hour
HourTicks == 2

MAX_FILE_SIZE == 204800
RATE_LIMIT_PER_HOUR == 30
COMMENT_RATE_LIMIT_PER_HOUR == 10
MaxAuthorName == 50
MaxCommentBody == 2000
MaxAnchorId == 120

\* column default of docs.doc_version and comments.doc_version
DefaultDocVersion == 1

DOC_ROOT == <<"d","o","c","-","r","o","o","t">>

\* nanoid(10): the id a new document receives; NoDoc is an id never issued
DocIds == {"d1", "d2"}
NoDoc  == "d0"

Paragraph(text) == [tag |-> <<"p">>, attrId |-> NoId, inner |-> text]

\* markdown, given by its length and by what marked() renders it to
MD_TwoIntro == [length |-> 12, nodes |-> <<Paragraph(T_Intro), Paragraph(T_Intro)>>]
MD_OneIntro == [length |-> 5, nodes |-> <<Paragraph(T_Intro)>>]
MD_Empty    == [length |-> 0, nodes |-> <<>>]
MD_TooLarge == [length |-> MAX_FILE_SIZE + 1, nodes |-> <<Paragraph(T_Intro)>>]

Markdowns == {MD_TwoIntro, MD_OneIntro}

\* request bodies of POST /api/render: one that is stored and two that are refused
PublishInputs == {MD_TwoIntro, MD_Empty, MD_TooLarge}

\* sha256(text): a hex digest, a string whatever was hashed; collision-free
sha256(text) == <<"sha256", ToString(text)>>

ClientIps == {"ip1"}

\* r2Key = `md/${id}.md`, and the key of an archived version `md/${id}_v${version}.md`
LiveKey(id) == <<"md", id>>

\* faulty variant: one archive key for all versions
SnapKeyUnversioned(id, v) == <<"md", id, "v">>

SnapKey(id, v) == <<"md", id, v>>

\* faulty variant: the put is acknowledged and nothing is stored
PutDropped(b, key, value) == b

\* bucket.put(key, value)
Put(b, key, value) == (key :> value) @@ b

\* the anchors a reader's page may send: those of any render of the document
PageAnchors == UNION { {a[i] : i \in 1..Len(a)} : a \in {addStableAnchorIds(m.nodes) : m \in Markdowns} }

\* c.repeat(n)
Repeat(c, n) == [i \in 1..n |-> c]

A_Name == <<" ","a","n","n"," ">>
A_Body == <<"o","k">>

\* JSON bodies of a comment post: on the anchors given, and three that are refused
CommentInputs(anchors) ==
    { [author_name |-> A_Name, body |-> A_Body, anchor_id |-> a] :
          a \in anchors \cup {Repeat("x", MaxAnchorId + 1)} }
    \cup { [author_name |-> <<" ">>, body |-> A_Body, anchor_id |-> DOC_ROOT],
           [author_name |-> A_Name, body |-> <<>>, anchor_id |-> DOC_ROOT] }

IdlePub == [pc |-> "idle", id |-> NoDoc, markdown |-> MD_Empty, now |-> 0]
IdleEd  == [pc |-> "idle", doc |-> NoDoc, content |-> MD_Empty, expected |-> 0, attempts |-> 0]
IdleCm  == [pc |-> "idle", doc |-> NoDoc, authorName |-> <<>>, commentBody |-> <<>>,
            anchorId |-> <<>>, ip |-> "", doc_version |-> 0]

\* a request that has answered: its locals are gone
DonePub == [IdlePub EXCEPT !.pc = "done"]
DoneCm  == [IdleCm EXCEPT !.pc = "done"]

\* a response: the handler, the status it answers with and the body it carries
ResponseWith(op, status, body) == [op |-> op, status |-> status, body |-> body]
Response(op, status) == ResponseWith(op, status, <<>>)
NoResponse == Response("none", "")

\* a request as its caller sent it
Request(op, doc, input) == [op |-> op, doc |-> doc, input |-> input]
NoRequest == Request("none", NoDoc, <<>>)

\* the response sent last came from handler op with this status
Answered(op, status) == resp.op = op /\ resp.status = status

\* no page open
NoView == [doc |-> NoDoc, version |-> 0, dom |-> <<>>, loaded |-> FALSE, selectedAnchor |-> DOC_ROOT,
           allComments |-> <<>>, order |-> <<>>, sidebar |-> <<>>, count |-> 0, threw |-> FALSE]

InitStore ==
    /\ docs = <<>>
    /\ bucket = <<>>
    /\ comments = <<>>
    /\ clock = 0

InitProcs ==
    /\ pub = IdlePub
    /\ ed = [e \in Editors |-> IdleEd]
    /\ cm = [p \in Commenters |-> IdleCm]
    /\ resp = NoResponse
    /\ edLog = <<>>
    /\ edCalls = 0
    /\ view = NoView
    /\ req = NoRequest
    /\ records = <<>>

\* no slug asked for
NoSlug == <<>>

IdleSlug ==
    /\ slugIn = <<>>
    /\ slugOut = NoSlug

IdleAnchor ==
    /\ html = <<>>
    /\ used = <<>>
    /\ ids = <<>>
    /\ passes = <<>>
    /\ IdleSlug

(***************************************************************************)
(* POST /api/render: create a document                                     *)
(***************************************************************************)
MaxUploads == 31     \* documents one client creates

\* nanoid(10): ids beyond the first ones, for a client that keeps uploading
UploadIds == { "u" \o ToString(i) : i \in 1..(MaxUploads + 1) }

AllDocIds == DocIds \cup UploadIds

\* checkRateLimit: rows of docs whose sha256 column equals the hash of the ip
checkRateLimit(ip, now) ==
    LET hourAgo == now - HourTicks
        count   == Cardinality({ d \in DOMAIN docs :
                                   docs[d].sha256 = sha256(ip) /\ docs[d].created_at > hourAgo })
    IN  count < RATE_LIMIT_PER_HOUR

\* input validation, the rate limit, then nanoid(10) and `now`
PubCheck(md, ip) ==
    /\ pub.pc = "idle"
    /\ IF md.length = 0 \/ md.length > MAX_FILE_SIZE
       THEN pub' = DonePub /\ resp' = Response("publish", "400")
       ELSE IF ~checkRateLimit(ip, clock)
       THEN pub' = DonePub /\ resp' = Response("publish", "429")
       ELSE /\ pub' = [pub EXCEPT !.pc = "put", !.markdown = md, !.now = clock,
                                  !.id = CHOOSE d \in AllDocIds : d \notin DOMAIN docs]
            /\ UNCHANGED resp
    /\ UNCHANGED <<storeVars, ed, cm, edLog, edCalls, anchorVars, records, view, req>>

\* DOCS_BUCKET.put(r2Key, markdown)
PubPut ==
    /\ pub.pc = "put"
    /\ bucket' = Put(bucket, LiveKey(pub.id), pub.markdown)
    /\ pub' = [pub EXCEPT !.pc = "insert"]
    /\ UNCHANGED <<docs, comments, clock, ed, cm, obsVars, anchorVars, records, view, req>>

\* faulty variant: the row without the column default
NewDocRowUnversioned(id, md, now) ==
    [ r2_key |-> LiveKey(id), bytes |-> md.length, created_at |-> now,
      sha256 |-> sha256(md), view_count |-> 0, doc_version |-> DefaultDocVersion - 1 ]

\* the row INSERT INTO docs writes; doc_version takes its column default
NewDocRow(id, md, now) ==
    [ r2_key |-> LiveKey(id), bytes |-> md.length, created_at |-> now,
      sha256 |-> sha256(md), view_count |-> 0, doc_version |-> DefaultDocVersion ]

PubInsert ==
    /\ pub.pc = "insert"
    /\ docs' = (pub.id :> NewDocRow(pub.id, pub.markdown, pub.now)) @@ docs
    /\ pub' = DonePub
    /\ resp' = Response("publish", "200")
    /\ UNCHANGED <<bucket, comments, clock, ed, cm, edLog, edCalls, anchorVars, records, view, req>>

\* a store call throws: the catch block answers 500
PubFail ==
    /\ pub.pc \in {"put", "insert"}
    /\ pub' = DonePub
    /\ resp' = Response("publish", "500")
    /\ UNCHANGED <<storeVars, ed, cm, edLog, edCalls, anchorVars, records, view, req>>

(***************************************************************************)
(* POST /api/comments/:docId: create a comment                             *)
(***************************************************************************)
\* anchorIdRaw || "doc-root"
EffectiveAnchor(input) ==
    IF trim(input.anchor_id) # <<>> THEN trim(input.anchor_id) ELSE DOC_ROOT

\* faulty variant: the lengths of the fields as sent, not trimmed
ValidationErrorRaw(input) ==
    IF Len(input.author_name) < 1 \/ Len(input.author_name) > MaxAuthorName THEN "author_name"
    ELSE IF Len(input.body) < 1 \/ Len(input.body) > MaxCommentBody THEN "body"
    ELSE IF Len(input.anchor_id) > MaxAnchorId THEN "anchor_id"
    ELSE ""

\* the three length checks, in order: "" when the input passes
ValidationError(input) ==
    LET authorName  == trim(input.author_name)
        commentBody == trim(input.body)
        anchorId    == EffectiveAnchor(input)
    IN  IF Len(authorName) < 1 \/ Len(authorName) > MaxAuthorName THEN "author_name"
        ELSE IF Len(commentBody) < 1 \/ Len(commentBody) > MaxCommentBody THEN "body"
        ELSE IF Len(anchorId) < 1 \/ Len(anchorId) > MaxAnchorId THEN "anchor_id"
        ELSE ""

\* COALESCE(doc_version, 1) of the row read
ReadDocVersion(row) == row.doc_version

\* SELECT ... FROM docs WHERE id = ?, then the body is parsed and validated
CmReadDoc(p, d, input, ip) ==
    /\ cm[p].pc = "idle"
    /\ IF d \notin DOMAIN docs
       THEN /\ cm' = [cm EXCEPT ![p] = DoneCm]
            /\ resp' = Response("post_comment", "404")
       ELSE IF ValidationError(input) # ""
       THEN /\ cm' = [cm EXCEPT ![p] = DoneCm]
            /\ resp' = ResponseWith("post_comment", "400", <<ValidationError(input)>>)
       ELSE /\ cm' = [cm EXCEPT ![p] =
                       [@ EXCEPT !.pc = "rate", !.doc = d, !.ip = ip,
                                 !.authorName = trim(input.author_name),
                                 !.commentBody = trim(input.body),
                                 !.anchorId = EffectiveAnchor(input),
                                 !.doc_version = ReadDocVersion(docs[d])]]
            /\ UNCHANGED resp
    /\ UNCHANGED <<storeVars, pub, ed, edLog, edCalls, anchorVars, records, view>>

\* SELECT COUNT(*) FROM comments WHERE ip_hash = ? AND created_at > ?
CommentCount(ip, hourAgo) ==
    Cardinality({ i \in 1..Len(comments) :
                    comments[i].ip_hash = sha256(ip) /\ comments[i].created_at > hourAgo })

\* hourAgo, then the count
CmRateCheck(p) ==
    /\ cm[p].pc = "rate"
    /\ IF CommentCount(cm[p].ip, clock - HourTicks) >= COMMENT_RATE_LIMIT_PER_HOUR
       THEN /\ cm' = [cm EXCEPT ![p] = DoneCm]
            /\ resp' = Response("post_comment", "429")
       ELSE /\ cm' = [cm EXCEPT ![p].pc = "insert"]
            /\ UNCHANGED resp
    /\ UNCHANGED <<storeVars, pub, ed, edLog, edCalls, anchorVars, records, view, req>>

\* faulty variant: the stamp runs ahead of the version read
StampedVersionAhead(p) == cm[p].doc_version + 1

\* the version stamped on the new row
StampedVersion(p) == cm[p].doc_version

\* the row INSERT INTO comments binds
CommentRow(id, docId, authorName, commentBody, anchorId, now, ip, docVersion) ==
    [ id |-> id, doc_id |-> docId, author_name |-> authorName, body |-> commentBody,
      anchor_id |-> anchorId, created_at |-> now, ip_hash |-> sha256(ip), flagged |-> 0,
      doc_version |-> docVersion ]

\* nanoid(12): an id no row carries yet
NextCommentId == Len(comments) + 1

NewCommentRow(p, now) ==
    CommentRow(NextCommentId, cm[p].doc, cm[p].authorName, cm[p].commentBody, cm[p].anchorId,
               now, cm[p].ip, StampedVersion(p))

\* faulty variant: the new row replaces the rows of the table
InsertedAlone(rows, row) == <<row>>

\* INSERT INTO comments: the table after it
Inserted(rows, row) == Append(rows, row)

\* faulty variant: the row as stored, its ip hash included
ReturnedUnhidden(row) == row

\* the comment of the 201 response: ip_hash is not exposed
Returned(row) == [row EXCEPT !.ip_hash = "null"]

\* `now`, then the insert
CmInsert(p) ==
    /\ cm[p].pc = "insert"
    /\ comments' = Inserted(comments, NewCommentRow(p, clock))
    /\ cm' = [cm EXCEPT ![p] = DoneCm]
    /\ resp' = ResponseWith("post_comment", "201", <<Returned(NewCommentRow(p, clock))>>)
    /\ UNCHANGED <<docs, bucket, clock, pub, ed, edLog, edCalls, anchorVars, records, view, req>>

\* a store call throws: the catch block answers 500
CmFail(p) ==
    /\ cm[p].pc \in {"rate", "insert"}
    /\ cm' = [cm EXCEPT ![p] = DoneCm]
    /\ resp' = Response("post_comment", "500")
    /\ UNCHANGED <<storeVars, pub, ed, edLog, edCalls, anchorVars, records, view, req>>

(***************************************************************************)
(* commit_edit (PUT /v/:id): expected-version compare-and-swap             *)
(***************************************************************************)
\* get_current: the version the edit is conditioned on
EdRead(e, d, content) ==
    /\ ed[e].pc = "idle"
    /\ \A e2 \in Editors : e2 < e => ed[e2].pc # "idle"
    /\ edCalls < MaxCalls
    /\ edCalls' = edCalls + 1
    /\ IF d \notin DOMAIN docs
       THEN /\ ed' = [ed EXCEPT ![e] = IdleEd]
            /\ resp' = Response("commit_edit", "NotFound")
       ELSE /\ ed' = [ed EXCEPT ![e] = [@ EXCEPT !.pc = "cas", !.doc = d, !.content = content,
                                                  !.expected = docs[d].doc_version]]
            /\ UNCHANGED resp
    /\ UNCHANGED <<storeVars, pub, cm, edLog, anchorVars, records, view, req>>

\* faulty variant: an unconditional update
CasHoldsAlways(e) == TRUE

\* the condition of the conditional update
CasHolds(e) == docs[ed[e].doc].doc_version = ed[e].expected

\* faulty variant: the archive receives the new content
CommitBucketNew(e) ==
    Put(Put(bucket, SnapKey(ed[e].doc, ed[e].expected), ed[e].content),
        LiveKey(ed[e].doc), ed[e].content)

\* archive the live content under the expected version, replace it, bump the version
CommitBucket(e) ==
    Put(Put(bucket, SnapKey(ed[e].doc, ed[e].expected), bucket[LiveKey(ed[e].doc)]),
        LiveKey(ed[e].doc), ed[e].content)

EdCommit(e) ==
    /\ ed[e].pc = "cas"
    /\ CasHolds(e)
    /\ bucket' = CommitBucket(e)
    /\ docs' = [docs EXCEPT ![ed[e].doc].doc_version = ed[e].expected + 1]
    /\ ed' = [ed EXCEPT ![e] = IdleEd]
    /\ resp' = Response("commit_edit", "OK")
    /\ edLog' = Append(edLog, [doc |-> ed[e].doc, version |-> ed[e].expected + 1,
                                before |-> bucket[LiveKey(ed[e].doc)]])
    /\ UNCHANGED <<comments, clock, pub, cm, edCalls, anchorVars, records, view, req>>

\* faulty variant: the retry loop without its bound
GiveUpNever(e) == FALSE

\* the attempt that just failed was the last one allowed
GiveUp(e) == ed[e].attempts + 1 >= MaxAttempts

\* the version moved: read again, or give up after MaxAttempts attempts
EdMismatch(e) ==
    /\ ed[e].pc = "cas"
    /\ ~CasHolds(e)
    /\ IF GiveUp(e)
       THEN /\ ed' = [ed EXCEPT ![e] = IdleEd]
            /\ resp' = Response("commit_edit", "Conflict")
       ELSE /\ ed' = [ed EXCEPT ![e] = [@ EXCEPT !.attempts = @ + 1,
                                                  !.expected = docs[ed[e].doc].doc_version]]
            /\ UNCHANGED resp
    /\ UNCHANGED <<storeVars, pub, cm, edLog, edCalls, anchorVars, records, view, req>>

\* faulty variant: the archive write survives the failure
FailBucketPartial(e) ==
    Put(bucket, SnapKey(ed[e].doc, ed[e].expected), bucket[LiveKey(ed[e].doc)])

\* what the blob store holds after a commit that failed: the unit is rolled back
FailBucket(e) == bucket

\* a store call of the commit times out: archive, live write and bump are undone together
EdFail(e) ==
    /\ ed[e].pc = "cas"
    /\ bucket' = FailBucket(e)
    /\ ed' = [ed EXCEPT ![e] = IdleEd]
    /\ resp' = Response("commit_edit", "StorageUnavailable")
    /\ UNCHANGED <<docs, comments, clock, pub, cm, edLog, edCalls, anchorVars, records, view, req>>

\* faulty variant: the live content passes for the snapshot of the current version
HasSnapshotOrLive(d, v) ==
    \/ SnapKey(d, v) \in DOMAIN bucket
    \/ d \in DOMAIN docs /\ v = docs[d].doc_version

\* get_snapshot(document_id, version_number): the archived content, if there is one
HasSnapshot(d, v) == SnapKey(d, v) \in DOMAIN bucket
get_snapshot(d, v) == bucket[SnapKey(d, v)]

\* version numbers a caller may ask for: none, negative, and past the last one
SnapVersions == (0 - 1)..(MaxCalls + 2)

\* the get_snapshot call: the archived content, or NotFound
GetSnapshot(d, v) ==
    /\ req' = Request("get_snapshot", d, <<v>>)
    /\ IF d \in DOMAIN docs /\ HasSnapshot(d, v)
       THEN resp' = ResponseWith("get_snapshot", "OK", <<get_snapshot(d, v)>>)
       ELSE resp' = Response("get_snapshot", "NotFound")
    /\ UNCHANGED <<storeVars, procVars, edLog, edCalls, anchorVars, records, view>>


(***************************************************************************)
(* GET /v/:id and GET /api/comments/:docId                                 *)
(***************************************************************************)
\* UPDATE docs SET view_count = view_count + 1 WHERE id = ?
CountView(d) == [docs EXCEPT ![d].view_count = @ + 1]

\* the page handler: 404 without a row, 500 without the blob
RenderDoc(d) ==
    /\ IF d \notin DOMAIN docs
       THEN /\ resp' = Response("render", "404")
            /\ UNCHANGED docs
       ELSE /\ docs[d].view_count < MaxViews
            /\ docs' = CountView(d)
            /\ resp' = Response("render", IF docs[d].r2_key \in DOMAIN bucket THEN "200" ELSE "500")
    /\ UNCHANGED <<bucket, comments, clock, procVars, edLog, edCalls, anchorVars, records, view, req>>

\* the columns the list query selects: all but ip_hash
Selected(row) == [f \in DOMAIN row \ {"ip_hash"} |-> row[f]]

\* faulty variant: the filter on flagged left out
ListedAll(d) == { i \in 1..Len(comments) : comments[i].doc_id = d }

\* the rows of one document that are not flagged
Listed(d) == { i \in 1..Len(comments) : comments[i].doc_id = d /\ comments[i].flagged = 0 }


Tick ==
    /\ clock < MaxClock
    /\ clock' = clock + 1
    /\ UNCHANGED <<docs, bucket, comments, procVars, obsVars, anchorVars, records, view, req>>

(***************************************************************************)
(* The page: its elements, loadComments, postComment and renderSidebar     *)
(***************************************************************************)
MaxComments == 2      \* comments posted from the page
MaxEdits    == 1      \* edits the author makes while the reader is at the page

\* Node.textContent of inner html without entities: the markup drops out
RECURSIVE textContent(_)
textContent(s) ==
    IF s = <<>> THEN <<>>
    ELSE LET j == FindClose(s, 2)
         IN  IF s[1] = "<" /\ j > 0
             THEN textContent(SubSeq(s, j + 1, Len(s)))
             ELSE <<s[1]>> \o textContent(Tail(s))

\* the elements of #doc-content that generateHtmlTemplate emits, in document order
RenderedDom(md) ==
    LET anchored == addStableAnchorIds(md.nodes)
    IN  [k \in 1..Len(md.nodes) |->
            [id |-> anchored[k], textContent |-> textContent(md.nodes[k].inner)]]

\* document.getElementById: the index of the first element with that id (0: null)
getElementById(dom, aid) ==
    IF \E k \in 1..Len(dom) : dom[k].id = aid
    THEN CHOOSE k \in 1..Len(dom) : dom[k].id = aid /\ \A l \in 1..(k - 1) : dom[l].id # aid
    ELSE 0

\* .slice(0, 60) of a group label
MaxLabel == 60

L_General == <<"G","e","n","e","r","a","l">>

\* c.anchor_id || DOC_ROOT
AidOf(c) == IF c.anchor_id # <<>> THEN c.anchor_id ELSE DOC_ROOT

\* the forEach that fills `order`: each aid once, in order of first appearance
RECURSIVE FirstAppearance(_, _)
FirstAppearance(all, seen) ==
    IF all = <<>> THEN <<>>
    ELSE IF AidOf(all[1]) \in seen THEN FirstAppearance(Tail(all), seen)
    ELSE <<AidOf(all[1])>> \o FirstAppearance(Tail(all), seen \cup {AidOf(all[1])})

\* order.sort(...): doc-root moves to the front, the rest keep their order
SortRootFirst(order) ==
    SelectSeq(order, LAMBDA a : a = DOC_ROOT) \o SelectSeq(order, LAMBDA a : a # DOC_ROOT)

GroupOrder(all) == SortRootFirst(FirstAppearance(all, {}))

\* faulty variant: each group filled newest first
RECURSIVE GroupOfNewestFirst(_, _)
GroupOfNewestFirst(all, aid) ==
    IF all = <<>> THEN <<>>
    ELSE GroupOfNewestFirst(Tail(all), aid) \o (IF AidOf(all[1]) = aid THEN <<all[1]>> ELSE <<>>)

\* groups[aid]
GroupOf(all, aid) == SelectSeq(all, LAMBDA c : AidOf(c) = aid)

\* the header label of a group
GroupLabel(dom, aid) ==
    IF aid = DOC_ROOT THEN L_General
    ELSE LET k == getElementById(dom, aid)
         IN  IF k # 0
             THEN slice0(trim(ReplaceRuns(dom[k].textContent, Space, <<" ">>)), MaxLabel)
             ELSE aid

\* relativeTime(dateStr), the clock running in ticks of 3600 / HourTicks seconds
relativeTime(at, now) ==
    LET diff == (now - at) * (3600 \div HourTicks)
    IN  IF diff < 60 THEN <<"just now">>
        ELSE IF diff < 3600 THEN <<diff \div 60, "m ago">>
        ELSE IF diff < 86400 THEN <<diff \div 3600, "h ago">>
        ELSE <<diff \div 86400, "d ago">>

\* one .sidebar-comment
SidebarItem(c, now) ==
    [ className |-> "sidebar-comment", author |-> c.author_name,
      time |-> relativeTime(c.created_at, now), body |-> c.body ]

\* one .comment-group: its header and its comments
SidebarSection(all, dom, aid, now) ==
    [ className |-> "comment-group",
      header |-> [className |-> "comment-group-header", label |-> GroupLabel(dom, aid),
                  count |-> Len(GroupOf(all, aid))],
      list |-> [i \in 1..Len(GroupOf(all, aid)) |-> SidebarItem(GroupOf(all, aid)[i], now)] ]

\* keys that `groups = {}` already answers through Object.prototype
ObjectPrototypeKeys ==
    { <<"c","o","n","s","t","r","u","c","t","o","r">>,
      <<"_","_","p","r","o","t","o","_","_">>,
      <<"t","o","S","t","r","i","n","g">>,
      <<"v","a","l","u","e","O","f">> }

\* groups[aid] is truthy before anything was stored under aid, and has no push:
\* groups[aid].push(c) throws a TypeError
PushThrows(all) == \E i \in 1..Len(all) : AidOf(all[i]) \in ObjectPrototypeKeys

\* renderSidebar: what #sidebar-groups holds after it; emptied and left empty
\* when the grouping loop throws
renderSidebar(all, dom, now) ==
    IF PushThrows(all) THEN <<>>
    ELSE [k \in 1..Len(GroupOrder(all)) |-> SidebarSection(all, dom, GroupOrder(all)[k], now)]

\* the page after renderComments() on the comments `all`
Rendered(v, all) ==
    [v EXCEPT !.allComments = all,
              !.order = IF PushThrows(all) THEN <<>> ELSE GroupOrder(all),
              !.sidebar = renderSidebar(all, v.dom, clock),
              !.count = Len(all),
              !.threw = PushThrows(all)]

\* GET /v/:id, then the page script up to loadComments()
OpenPage(d) ==
    /\ d \in DOMAIN docs
    /\ docs[d].r2_key \in DOMAIN bucket
    /\ docs[d].view_count < MaxViews
    /\ docs' = CountView(d)
    /\ view' = [NoView EXCEPT !.doc = d, !.version = docs[d].doc_version,
                              !.dom = RenderedDom(bucket[docs[d].r2_key])]
    /\ UNCHANGED <<bucket, comments, clock, procVars, obsVars, anchorVars, records, req>>

\* SELECT ... WHERE doc_id = ? AND flagged = 0 ORDER BY created_at ASC: the orders it may return
ListedInOrder(d) ==
    { [i \in 1..Len(f) |-> Selected(comments[f[i]])] :
        f \in { g \in [1..Cardinality(Listed(d)) -> Listed(d)] :
                  /\ \A i, j \in DOMAIN g : i # j => g[i] # g[j]
                  /\ \A i, j \in DOMAIN g :
                        i < j => comments[g[i]].created_at <= comments[g[j]].created_at } }

\* loadComments(): the list arrives, renderComments()
LoadComments ==
    /\ view.doc # NoDoc
    /\ ~view.loaded
    /\ \E all \in ListedInOrder(view.doc) :
         view' = [Rendered(view, all) EXCEPT !.loaded = TRUE]
    /\ UNCHANGED <<storeVars, procVars, obsVars, anchorVars, records, req>>

\* the ids a click in #doc-content can select
Selectable(v) == { v.dom[k].id : k \in 1..Len(v.dom) } \cup {DOC_ROOT}

\* selectAnchor(el) and selectGeneral()
SelectAnchor(a) ==
    /\ view.doc # NoDoc
    /\ a \in Selectable(view)
    /\ a # view.selectedAnchor
    /\ view' = [view EXCEPT !.selectedAnchor = a]
    /\ UNCHANGED <<storeVars, procVars, obsVars, anchorVars, records, req>>

\* postComment(): the POST handler runs to its 201, the comment is pushed, renderComments()
PostComment ==
    /\ view.doc # NoDoc
    /\ Len(comments) < MaxComments
    /\ LET input == [author_name |-> A_Name, body |-> A_Body, anchor_id |-> view.selectedAnchor]
           ip    == CHOOSE i \in ClientIps : TRUE
           row   == CommentRow(NextCommentId, view.doc, trim(input.author_name),
                               trim(input.body), EffectiveAnchor(input), clock, ip,
                               ReadDocVersion(docs[view.doc]))
       IN  /\ ValidationError(input) = ""
           /\ CommentCount(ip, clock - HourTicks) < COMMENT_RATE_LIMIT_PER_HOUR
           /\ comments' = Inserted(comments, row)
           /\ view' = Rendered(view, Append(view.allComments, Returned(row)))
    /\ UNCHANGED <<docs, bucket, clock, procVars, obsVars, anchorVars, records, req>>

(***************************************************************************)
(* The comment routes called one request after another, and moderation     *)
(***************************************************************************)
N_Max   == Repeat("n", MaxAuthorName)
N_Over  == Repeat("n", MaxAuthorName + 1)
B_Max   == Repeat("b", MaxCommentBody)
B_Over  == Repeat("b", MaxCommentBody + 1)
A_Max   == Repeat("x", MaxAnchorId)
A_Over  == Repeat("x", MaxAnchorId + 1)

Padded(s) == <<" ">> \o s \o <<" ">>

CommentInput(name, body, anchor) == [author_name |-> name, body |-> body, anchor_id |-> anchor]

\* JSON bodies at and beside the bounds of each field
PostInputs ==
    { CommentInput(A_Name, A_Body, DOC_ROOT),
      CommentInput(N_Max, B_Max, A_Max),
      CommentInput(Padded(N_Max), Padded(B_Max), Padded(A_Max)),
      CommentInput(N_Over, A_Body, DOC_ROOT),
      CommentInput(A_Name, B_Over, DOC_ROOT),
      CommentInput(A_Name, A_Body, A_Over),
      CommentInput(N_Over, B_Over, A_Over),
      CommentInput(<<>>, A_Body, DOC_ROOT),
      CommentInput(A_Name, <<" ">>, DOC_ROOT),
      CommentInput(<<>>, <<>>, <<>>) }

\* the client's next request: a new handler invocation
CmNext(p) ==
    /\ cm[p].pc = "done"
    /\ cm' = [cm EXCEPT ![p] = IdleCm]
    /\ UNCHANGED <<storeVars, pub, ed, obsVars, anchorVars, records, view, req>>

PubNext ==
    /\ pub.pc = "done"
    /\ \E d \in DocIds : d \notin DOMAIN docs
    /\ pub' = IdlePub
    /\ UNCHANGED <<storeVars, ed, cm, obsVars, anchorVars, records, view, req>>

\* a moderator sets or clears the flagged bit of a comment
FlagToggle(i) ==
    /\ i \in 1..Len(comments)
    /\ comments' = [comments EXCEPT ![i].flagged = 1 - @]
    /\ UNCHANGED <<docs, bucket, clock, procVars, obsVars, anchorVars, records, view, req>>

\* GET /api/comments/:docId
ListComments(d) ==
    /\ req' = Request("list_comments", d, <<>>)
    /\ IF d \notin DOMAIN docs
       THEN resp' = Response("list_comments", "404")
       ELSE \E all \in ListedInOrder(d) : resp' = ResponseWith("list_comments", "200", all)
    /\ UNCHANGED <<storeVars, procVars, edLog, edCalls, anchorVars, records, view>>

(***************************************************************************)
(* Specifications                                                          *)
(***************************************************************************)
vars == <<html, used, ids, passes, slugIn, slugOut, docs, bucket, comments, clock,
          pub, ed, cm, resp, edLog, edCalls, view, req, records>>

Init == InitStore /\ InitProcs /\ IdleAnchor

Next ==
    \/ \E md \in PublishInputs, ip \in ClientIps : PubCheck(md, ip)
    \/ PubPut
    \/ PubInsert
    \/ PubFail
    \/ \E p \in Commenters, d \in DocIds \cup {NoDoc}, input \in CommentInputs({DOC_ROOT, <<>>}), ip \in ClientIps :
         CmReadDoc(p, d, input, ip) /\ UNCHANGED req
    \/ \E p \in Commenters : CmRateCheck(p) \/ CmInsert(p) \/ CmFail(p)
    \/ \E e \in Editors, d \in DocIds \cup {NoDoc}, content \in Markdowns : EdRead(e, d, content)
    \/ \E e \in Editors : EdCommit(e) \/ EdMismatch(e) \/ EdFail(e)
    \/ \E d \in DocIds \cup {NoDoc} : RenderDoc(d)

Spec == Init /\ [][Next]_vars

(***************************************************************************)
(* Version store and comment stamps                                        *)
(***************************************************************************)
\* the commits of document d, in commit order
CommitsOf(d) == SelectSeq(edLog, LAMBDA c : c.doc = d)

\* C2: the successful commit_edit calls on a document published at version 1
\* return 2, 3, ..., N+1 in commit order, and the document ends at N+1
C2_VersionsSequential ==
    \A d \in DOMAIN docs :
        /\ \A i \in 1..Len(CommitsOf(d)) : CommitsOf(d)[i].version = i + 1
        /\ docs[d].doc_version = Len(CommitsOf(d)) + 1

\* every call issued so far has committed, three of them
C2_AllCallsCommitted == edCalls = 3 /\ Len(edLog) = 3

\* C3: a commit writes its snapshot under a version that has none yet, and a
\* snapshot once written stays, with the same content, in every later state
C3_SnapshotsWrittenOnce ==
    [][ /\ \A d \in DocIds, v \in 1..(MaxCalls + 1) :
              HasSnapshot(d, v) => HasSnapshot(d, v)' /\ get_snapshot(d, v)' = get_snapshot(d, v)
        /\ Len(edLog') > Len(edLog) =>
              ~HasSnapshot(edLog'[Len(edLog')].doc, edLog'[Len(edLog')].version - 1)
      ]_vars

\* two snapshots exist while a third commit_edit is in flight
C3_TwoSnapshots ==
    /\ HasSnapshot("d1", 1) /\ HasSnapshot("d1", 2)
    /\ \E e \in Editors : ed[e].pc = "cas"

\* C4: after a commit from V to V+1, get_snapshot(document, V) is the content
\* that was live immediately before that commit
C4_SnapshotIsPriorContent ==
    \A i \in 1..Len(edLog) :
        /\ HasSnapshot(edLog[i].doc, edLog[i].version - 1)
        /\ get_snapshot(edLog[i].doc, edLog[i].version - 1) = edLog[i].before

\* two commits have replaced different contents, and the live content differs from the last archive
C4_DistinctSnapshots ==
    /\ Len(edLog) >= 2
    /\ edLog[1].before # edLog[2].before
    /\ bucket[LiveKey(edLog[2].doc)] # edLog[2].before

\* a commit_edit that ends without committing
EdFailed(e) == ed[e].pc = "cas" /\ ed'[e].pc = "idle" /\ edLog' = edLog

C6_VersionMonotonic ==
    [][ /\ \A d \in DOMAIN docs' \ DOMAIN docs : docs'[d].doc_version = 1
        /\ \A d \in DOMAIN docs :
              /\ d \in DOMAIN docs'
              /\ docs'[d].doc_version =
                    docs[d].doc_version + Len(CommitsOf(d)') - Len(CommitsOf(d))
              /\ Len(CommitsOf(d)') - Len(CommitsOf(d)) \in {0, 1}
      ]_vars

\* the document has been viewed, commented on and edited, and an edit has failed
C6_AllOperationsSeen ==
    /\ \E d \in DOMAIN docs : docs[d].view_count > 0 /\ docs[d].doc_version > 1
    /\ Len(comments) > 0
    /\ Answered("commit_edit", "Conflict")

\* C7: a comment carries the version its post read from the docs row, which is
\* at least 1 and at most the document's current version
C7_StampWithinVersions ==
    /\ \A i \in 1..Len(comments) :
          /\ comments[i].doc_version >= 1
          /\ comments[i].doc_version <= docs[comments[i].doc_id].doc_version
    /\ \A p \in Commenters : cm[p].pc \in {"rate", "insert"} =>
          /\ StampedVersion(p) >= 1
          /\ StampedVersion(p) <= docs[cm[p].doc].doc_version

\* a comment stamped 2 on a document that has moved on to 3
C7_StampBehind ==
    \E i \in 1..Len(comments) :
        comments[i].doc_version = 2 /\ docs[comments[i].doc_id].doc_version = 3

\* one reader and one author, their requests one after another
NextView ==
    \/ \E md \in PublishInputs, ip \in ClientIps : PubCheck(md, ip)
    \/ PubPut
    \/ PubInsert
    \/ \E d \in DocIds, content \in Markdowns : edCalls < MaxEdits /\ EdRead(1, d, content)
    \/ EdCommit(1)
    \/ \E d \in DocIds : OpenPage(d)
    \/ LoadComments
    \/ \E a \in PageAnchors \cup {DOC_ROOT} : SelectAnchor(a)
    \/ PostComment
    \/ Tick

SpecView == Init /\ [][NextView]_vars

(***************************************************************************)
(* Reconciliation of the comments against the page                         *)
(***************************************************************************)
\* the page shows the document's current version and its comments have arrived
PageCurrent ==
    /\ view.doc \in DOMAIN docs
    /\ view.loaded
    /\ view.version = docs[view.doc].doc_version

\* the current anchor set: the ids of the page's elements
AnchorSet == { view.dom[k].id : k \in 1..Len(view.dom) }

\* the class section 4.5 of the specification gives a comment
ClassOf(c) ==
    IF c.anchor_id = DOC_ROOT THEN "general"
    ELSE IF c.anchor_id \notin AnchorSet THEN "orphaned"
    ELSE IF c.doc_version = view.version THEN "current"
    ELSE IF c.doc_version < view.version THEN "stale-anchored"
    ELSE "none"

\* the places of the sidebar: section k, item i
Places ==
    { pl \in (1..Len(view.sidebar)) \X (1..Len(view.allComments)) :
          pl[2] <= Len(view.sidebar[pl[1]].list) }

\* the comment shown at a place, and how the sidebar presents it
CommentAt(pl) == GroupOf(view.allComments, view.order[pl[1]])[pl[2]]

Presentation(pl) ==
    [ section |-> view.sidebar[pl[1]].className,
      label   |-> view.sidebar[pl[1]].header.label,
      item    |-> view.sidebar[pl[1]].list[pl[2]].className ]

\* C8: the sidebar presents every comment under the one class the rule gives
\* it (general, current, stale-anchored, orphaned): comments of different
\* classes are never presented alike
C8_ClassesPresented ==
    PageCurrent =>
        \A p1, p2 \in Places :
            Presentation(p1) = Presentation(p2) => ClassOf(CommentAt(p1)) = ClassOf(CommentAt(p2))

\* C9: a comment whose anchor is not among the page's elements is listed in
\* the General section, and no section is keyed by the missing anchor
C9_OrphanInGeneral ==
    PageCurrent =>
        \A i \in 1..Len(view.allComments) :
            ClassOf(view.allComments[i]) = "orphaned" =>
                /\ \A k \in 1..Len(view.order) : view.order[k] # view.allComments[i].anchor_id
                /\ \E pl \in Places :
                      /\ view.order[pl[1]] = DOC_ROOT
                      /\ CommentAt(pl) = view.allComments[i]

\* C10: the General section comes first, and the other sections follow in the
\* order of their anchors' elements in the page
C10_DocumentOrder ==
    PageCurrent =>
        /\ \A k \in 1..Len(view.order) : view.order[k] = DOC_ROOT => k = 1
        /\ \A k, l \in 1..Len(view.order) :
              (k < l /\ view.order[k] \in AnchorSet /\ view.order[l] \in AnchorSet) =>
                  getElementById(view.dom, view.order[k]) < getElementById(view.dom, view.order[l])

\* one client posting bodies at and beside the field bounds, one request after another
NextPost ==
    \/ \E md \in {MD_TwoIntro}, ip \in ClientIps : PubCheck(md, ip)
    \/ PubPut
    \/ PubInsert
    \/ \E d \in DocIds \cup {NoDoc}, input \in PostInputs, ip \in ClientIps :
         /\ Len(comments) < MaxComments
         /\ CmReadDoc(1, d, input, ip)
         /\ req' = Request("post_comment", d, input)
    \/ CmRateCheck(1)
    \/ CmInsert(1)
    \/ CmFail(1)
    \/ CmNext(1)

SpecPost == Init /\ [][NextPost]_vars

\* two documents, one client of the comment routes, a moderator and an author
NextList ==
    \/ \E md \in {MD_TwoIntro}, ip \in ClientIps : PubCheck(md, ip)
    \/ PubPut
    \/ PubInsert
    \/ PubNext
    \/ \E d \in DocIds, ip \in ClientIps :
         /\ Len(comments) < MaxComments
         /\ CmReadDoc(1, d, CommentInput(A_Name, A_Body, DOC_ROOT), ip)
         /\ UNCHANGED req
    \/ CmRateCheck(1)
    \/ CmInsert(1)
    \/ CmNext(1)
    \/ \E i \in 1..MaxComments : FlagToggle(i)
    \/ \E d \in DocIds \cup {NoDoc} : ListComments(d)
    \/ Tick

SpecList == Init /\ [][NextList]_vars

NumPosters == 2      \* post requests of one client in flight at once

Posters == 1..NumPosters

InitRace ==
    /\ InitStore /\ IdleAnchor
    /\ pub = IdlePub
    /\ ed = [e \in Editors |-> IdleEd]
    /\ cm = [p \in Posters |-> IdleCm]
    /\ resp = NoResponse /\ edLog = <<>> /\ edCalls = 0
    /\ view = NoView /\ req = NoRequest /\ records = <<>>

\* one client whose post requests overlap: each handler runs its awaits in turn
NextRace ==
    \/ \E md \in {MD_TwoIntro}, ip \in ClientIps : PubCheck(md, ip)
    \/ PubPut
    \/ PubInsert
    \/ \E p \in Posters, d \in DocIds, ip \in ClientIps :
         /\ CmReadDoc(p, d, CommentInput(A_Name, A_Body, DOC_ROOT), ip)
         /\ UNCHANGED req
    \/ \E p \in Posters : CmRateCheck(p)
    \/ \E p \in Posters : CmInsert(p)
    \/ \E p \in Posters : CmNext(p)
    \/ Tick

SpecRace == InitRace /\ [][NextRace]_vars

\* the client's next upload: a new handler invocation
UploadNext ==
    /\ pub.pc = "done"
    /\ Cardinality(DOMAIN docs) < MaxUploads
    /\ pub' = IdlePub
    /\ UNCHANGED <<storeVars, ed, cm, obsVars, anchorVars, records, view, req>>

\* one client uploading document after document while the clock runs
NextUpload ==
    \/ \E md \in {MD_TwoIntro, MD_Empty}, ip \in ClientIps : PubCheck(md, ip)
    \/ PubPut
    \/ PubInsert
    \/ PubFail
    \/ UploadNext
    \/ Tick

SpecUpload == Init /\ [][NextUpload]_vars

\* JSON bodies of a client that posts again and again: one valid, one not
RateInputs ==
    { CommentInput(A_Name, A_Body, DOC_ROOT),
      CommentInput(<<>>, A_Body, DOC_ROOT) }

\* one client posting until the hourly limit answers, while the clock runs
NextRate ==
    \/ \E md \in {MD_TwoIntro}, ip \in ClientIps : PubCheck(md, ip)
    \/ PubPut
    \/ PubInsert
    \/ \E d \in DocIds \cup {NoDoc}, input \in RateInputs, ip \in ClientIps :
         /\ CmReadDoc(1, d, input, ip)
         /\ req' = Request("post_comment", d, input)
    \/ CmRateCheck(1)
    \/ CmInsert(1)
    \/ CmFail(1)
    \/ CmNext(1)
    \/ Tick

SpecRate == Init /\ [][NextRate]_vars

\* one document with its author, its readers and a moderator: every operation
\* that runs while comments are stored
NextFrame ==
    \/ \E md \in {MD_TwoIntro}, ip \in ClientIps : PubCheck(md, ip)
    \/ PubPut
    \/ PubInsert
    \/ \E d \in DocIds, ip \in ClientIps :
         /\ Len(comments) < MaxComments
         /\ CmReadDoc(1, d, CommentInput(A_Name, A_Body, DOC_ROOT), ip)
         /\ UNCHANGED req
    \/ CmRateCheck(1)
    \/ CmInsert(1)
    \/ CmFail(1)
    \/ CmNext(1)
    \/ \E i \in 1..MaxComments : FlagToggle(i)
    \/ \E d \in DocIds : ListComments(d)
    \/ \E d \in DocIds : edCalls < MaxEdits /\ EdRead(1, d, MD_OneIntro)
    \/ EdCommit(1)
    \/ EdFail(1)
    \/ Tick

SpecFrame == Init /\ [][NextFrame]_vars

\* one document and its concurrent editors
NextEdit ==
    \/ \E md \in {MD_TwoIntro}, ip \in ClientIps : PubCheck(md, ip)
    \/ PubPut
    \/ PubInsert
    \/ \E e \in Editors, d \in DocIds, content \in Markdowns : EdRead(e, d, content)
    \/ \E e \in Editors : EdCommit(e)
    \/ \E e \in Editors : EdMismatch(e)
    \/ \E e \in Editors : EdFail(e)

\* a commit_edit call that has read the version goes on to its next attempt
EditFairness == \A e \in Editors : WF_vars(EdCommit(e) \/ EdMismatch(e))

SpecEdit == Init /\ [][NextEdit]_vars /\ EditFairness

\* one document, its editors and a reader of the archive
NextSnap ==
    \/ \E md \in {MD_TwoIntro}, ip \in ClientIps : PubCheck(md, ip)
    \/ PubPut
    \/ PubInsert
    \/ \E e \in Editors, d \in DocIds, content \in Markdowns : EdRead(e, d, content)
    \/ \E e \in Editors : EdCommit(e)
    \/ \E e \in Editors : EdMismatch(e)
    \/ \E e \in Editors : EdFail(e)
    \/ \E d \in DocIds, v \in SnapVersions : GetSnapshot(d, v)

SpecSnap == Init /\ [][NextSnap]_vars

\* the slug generator on its own: texts over a small alphabet, then one call
MaxSlugText == 4

SlugAlphabet == {"a", "B", "1", "-", " ", "!", "&", ";"}

SlugTexts == UNION { [1..n -> SlugAlphabet] : n \in 0..MaxSlugText }

InitSlug ==
    /\ html = <<>> /\ used = <<>> /\ ids = <<>> /\ passes = <<>>
    /\ slugIn \in SlugTexts
    /\ slugOut = NoSlug
    /\ InitStore /\ InitProcs

\* slugifyAnchorText(text) returns
Slugify ==
    /\ slugOut = NoSlug
    /\ slugOut' = <<slugifyAnchorText(slugIn)>>
    /\ UNCHANGED <<html, used, ids, passes, slugIn, storeVars, procVars, obsVars, view, req, records>>

NextSlug == Slugify

SpecSlug == InitSlug /\ [][NextSlug]_vars

\* the anchor pass as a state machine: one replace callback per step
InitAnchor ==
    /\ html \in ModelHtml
    /\ used = <<>>
    /\ ids = <<>>
    /\ passes = <<>>
    /\ IdleSlug
    /\ InitStore /\ InitProcs

\* html.replace(eligible, callback): the callback on the next match
AnchorStep ==
    /\ Len(ids) < Len(html)
    /\ LET r == AssignNode(used, html[Len(ids) + 1])
       IN  /\ used' = r.used
           /\ ids' = Append(ids, r.id)
    /\ UNCHANGED <<html, passes, slugIn, slugOut, storeVars, procVars, obsVars, view, req, records>>

\* a later call of addStableAnchorIds, on the same content or on another
RenderAgain(h) ==
    /\ Len(ids) = Len(html)
    /\ Len(passes) < MaxPasses
    /\ passes' = Append(passes, [html |-> h, ids |-> AssignFrom(FreshUsed(used), h, 1)])
    /\ UNCHANGED <<html, used, ids, slugIn, slugOut, storeVars, procVars, obsVars, view, req, records>>

NextAnchor ==
    \/ AnchorStep
    \/ \E h \in {html, OtherHtml} : RenderAgain(h)

SpecAnchor == InitAnchor /\ [][NextAnchor]_vars

\* the matches that received an id from the assigner so far
Assigned == { k \in 1..Len(ids) : html[k].attrId = NoId }

\* C1: no two nodes processed in one render pass receive the same anchor id
C1_AnchorsUnique ==
    \A i, j \in Assigned : i # j => ids[i] # ids[j]


(***************************************************************************)
(* Claims about the comment routes                                         *)
(***************************************************************************)
NameOk(input)   == Len(trim(input.author_name)) \in 1..MaxAuthorName
BodyOk(input)   == Len(trim(input.body)) \in 1..MaxCommentBody
AnchorOk(input) == Len(trim(input.anchor_id)) <= MaxAnchorId

\* the first field out of bounds, in the order the spec lists them
FirstBad(input) ==
    IF ~NameOk(input) THEN "author_name"
    ELSE IF ~BodyOk(input) THEN "body"
    ELSE "anchor_id"

\* the last post_comment call found its document and was accepted or refused as invalid
PostSettled ==
    /\ cm[1].pc = "done"
    /\ req.op = "post_comment"
    /\ resp.op = "post_comment"
    /\ resp.status \in {"201", "400"}

StoredWithId(id) == comments[CHOOSE i \in 1..Len(comments) : comments[i].id = id]

\* the last answer is a list of the comments of req.doc, as the store now holds them
ListAnswer ==
    LET body == resp.body
    IN  /\ { body[i].id : i \in 1..Len(body) } =
             { comments[i].id : i \in { j \in 1..Len(comments) :
                                            /\ comments[j].doc_id = req.doc
                                            /\ comments[j].flagged = 0 } }
        /\ \A i, j \in 1..Len(body) : i # j => body[i].id # body[j].id
        /\ \A i, j \in 1..Len(body) : i < j => body[i].created_at <= body[j].created_at
        /\ \A i \in 1..Len(body) :
              /\ body[i].doc_id = req.doc
              /\ body[i].flagged = 0
              /\ \A f \in DOMAIN body[i] : body[i][f] = StoredWithId(body[i].id)[f]

\* a step of the list route: an answer to list, the store and every request in
\* flight as they were
ListStep ==
    /\ resp'.op = "list_comments"
    /\ UNCHANGED <<storeVars, procVars, edLog, edCalls>>

\* C12: list(document) answers exactly the stored comments of that document whose
\* flagged bit is 0, each once, in ascending created_at, none of another document;
\* the flagged comments are still in the store after the call.
C12_ListIsUnflaggedInOrder ==
    [][(ListStep /\ resp'.status = "200") => ListAnswer']_vars

\* a list of one comment was answered while a flagged comment of the same document
\* was in the store
C12_FlaggedKeptNotListed ==
    /\ Answered("list_comments", "200")
    /\ Len(resp.body) = 1
    /\ \E i \in 1..Len(comments) :
          /\ comments[i].doc_id = req.doc
          /\ comments[i].flagged = 1
          /\ comments[i].created_at < resp.body[1].created_at
    /\ ListAnswer

\* the columns of a comment other than the moderation bit
FrozenFields == {"id", "doc_id", "author_name", "body", "anchor_id", "created_at",
                 "ip_hash", "doc_version"}

\* row is among rows', with every column but flagged as it was
Kept(row) ==
    \E j \in 1..Len(comments') :
        /\ comments'[j].id = row.id
        /\ \A f \in FrozenFields : comments'[j][f] = row[f]

\* C19: whatever runs after a comment is stored (an edit of the document, posts of
\* other comments, list, a failing call, a moderation toggle, the passing of time),
\* the comment stays in the store and every field of it but flagged keeps its
\* value; in particular an edit never changes the version a comment was stamped with.
C19_CommentFrozenButFlag ==
    [][\A i \in 1..Len(comments) : Kept(comments[i])]_vars

\* a comment stamped 1 was flagged, saw the document move past version 1 and
\* a second comment arrive with a later stamp
C19_FlaggedEditedOver ==
    /\ Len(comments) = 2
    /\ comments[1].flagged = 1
    /\ comments[1].doc_version = DefaultDocVersion
    /\ docs[comments[1].doc_id].doc_version > comments[1].doc_version
    /\ comments[2].doc_version > comments[1].doc_version
    /\ comments[2].doc_id = comments[1].doc_id

\* the post_comment call is answered in this step
PostAnswers == cm[1].pc # "done" /\ cm'[1].pc = "done"

\* the post_comment call starts in this step
PostStarts == cm[1].pc = "idle" /\ cm'[1].pc # "idle"

\* C20: a post_comment call that fails (NotFound, ValidationError, RateLimited or
\* a storage failure) leaves the documents, the blobs and the comments as they
\* were; a call on an unknown document is answered NotFound whatever its other
\* fields; the comments change only in the step that answers 201, which adds
\* exactly one row, the one returned with its ip hash hidden.
C20_FailedPostPersistsNothing ==
    [][/\ PostStarts /\ req'.doc \notin DOMAIN docs =>
             cm'[1].pc = "done" /\ resp'.op = "post_comment" /\ resp'.status = "404"
       /\ cm' # cm => UNCHANGED <<docs, bucket>>
       /\ PostAnswers =>
             /\ resp'.op = "post_comment"
             /\ resp'.status \in {"201", "400", "404", "429", "500"}
             /\ resp'.status # "201" => UNCHANGED comments
             /\ resp'.status = "201" =>
                   /\ Len(comments') = Len(comments) + 1
                   /\ SubSeq(comments', 1, Len(comments)) = comments
                   /\ resp'.body =
                         <<[comments'[Len(comments')] EXCEPT !.ip_hash = "null"]>>
                   /\ \A i \in 1..Len(comments) :
                         comments[i].id # comments'[Len(comments')].id
       /\ comments' # comments => PostAnswers /\ resp'.status = "201"
      ]_vars

\* the hourly limit refused a post with the ten comments of the hour in the store
C20_RefusedAtLimit ==
    /\ Answered("post_comment", "429")
    /\ cm[1].pc = "done"
    /\ Len(comments) = COMMENT_RATE_LIMIT_PER_HOUR

(***************************************************************************)
(* Claims about the anchor pass                                            *)
(***************************************************************************)
\* the base slugs of the first n matches
RECURSIVE BasesUpTo(_)
BasesUpTo(n) ==
    IF n = 0 THEN <<>> ELSE Append(BasesUpTo(n - 1), BaseSlug(html[n]))

\* the position of match i among the matches given an id so far that share its base slug
Occurrence(bases, i) ==
    Cardinality({ j \in Assigned : j <= i /\ bases[j] = bases[i] })

\* C13: within one pass the k-th node, in document order, whose base slug is b
\* receives the anchor b when k = 1 and b-k when k >= 2.
C13_KthOccurrenceSuffixed ==
    LET bases == BasesUpTo(Len(ids))
    IN  \A i \in Assigned :
            ids[i] = IF Occurrence(bases, i) = 1
                     THEN bases[i]
                     ELSE bases[i] \o <<"-">> \o DecStr(Occurrence(bases, i))

\* three nodes flattening to the same text: intro, intro-2, intro-3
C13_ThirdOccurrence ==
    /\ Len(ids) = 3
    /\ Assigned = {1, 2, 3}
    /\ \A i \in 1..3 : FlattenInner(html[i].inner) = T_Intro
    /\ ids = << <<"i","n","t","r","o">>,
                <<"i","n","t","r","o","-","2">>,
                <<"i","n","t","r","o","-","3">> >>

\* the passes that have run to their end, the first one included
FinishedPasses ==
    { passes[i] : i \in 1..Len(passes) }
    \cup (IF Len(ids) = Len(html) THEN {[html |-> html, ids |-> ids]} ELSE {})

OnlyPunctuation(text) ==
    \A i \in 1..Len(text) : text[i] \notin Lower \cup Upper \cup Digit

\* C15: an eligible node whose flattened text is empty or holds only punctuation
\* and whitespace gets the token of its kind (its tag) as base anchor, suffixed
\* by its occurrence as every base is, and never an empty anchor.
C15_PunctuationFallsBackToKind ==
    \A i \in Assigned :
        OnlyPunctuation(FlattenInner(html[i].inner)) =>
            /\ ids[i] # <<>>
            /\ \E k \in 1..Len(ids) : ids[i] = SuffixedId(html[i].tag, k)

(***************************************************************************)
(* Claims about the slug generator                                         *)
(***************************************************************************)
\* no letter or digit is left once the text is lowercased and its entities are gone
NothingSurvives(text) ==
    LET t == ReplaceEntities(toLowerCase(text))
    IN  \A i \in 1..Len(t) : t[i] \notin Lower \cup Digit

WellFormedSlug(t) ==
    /\ t # <<>>
    /\ \A i \in 1..Len(t) : t[i] \in Lower \cup Digit \cup {"-"}
    /\ t[1] # "-"
    /\ t[Len(t)] # "-"
    /\ \A i \in 1..(Len(t) - 1) : ~(t[i] = "-" /\ t[i + 1] = "-")

\* C16: for every text, slugifyAnchorText returns a non-empty token of lowercase
\* ASCII letters, digits and hyphens, without a hyphen at either end and without
\* two hyphens in a row; when nothing survives normalisation it returns the
\* fixed fallback token.
C16_SlugWellFormed ==
    slugOut # NoSlug =>
        /\ Len(slugOut) = 1
        /\ WellFormedSlug(slugOut[1])
        /\ NothingSurvives(slugIn) => slugOut[1] = SlugFallback

\* a text with hyphens at its edges and a run of punctuation and hyphen was slugged
C16_EdgesAndRunsNormalised ==
    /\ slugIn = <<"-", "B", "!", "-">>
    /\ slugOut = << <<"b">> >>

(***************************************************************************)
(* Claims about commit_edit and the archive                                *)
(***************************************************************************)
\* the commit_edit call of editor e returns in this step
EdEnds(e) == ed[e].pc = "cas" /\ ed'[e].pc = "idle"

\* what one step may do to the call of editor e and to the store
EditStep ==
    /\ \A e \in Editors :
          /\ (ed[e].pc = "cas" /\ ed'[e] # ed[e]) =>
                (EdEnds(e) \/ ed'[e].attempts = ed[e].attempts + 1)
          /\ ed'[e].attempts > ed[e].attempts =>
                docs[ed[e].doc].doc_version # ed[e].expected
          /\ EdEnds(e) =>
                /\ resp'.op = "commit_edit"
                /\ resp'.status \in {"OK", "Conflict", "StorageUnavailable"}
                /\ resp'.status = "OK" =>
                      /\ docs[ed[e].doc].doc_version = ed[e].expected
                      /\ docs'[ed[e].doc].doc_version = ed[e].expected + 1
                /\ resp'.status = "Conflict" =>
                      /\ docs[ed[e].doc].doc_version # ed[e].expected
                      /\ ed[e].attempts + 1 = MaxAttempts
                      /\ UNCHANGED <<docs, bucket>>
    /\ ((docs' # docs \/ bucket' # bucket) /\ pub' = pub) =>
          \E e \in Editors : EdEnds(e) /\ resp'.status = "OK"

\* C17: every commit_edit call returns: it makes at most MaxAttempts
\* compare-and-swap attempts, whatever the other editors do, and then answers
\* with the new version or with Conflict (or with StorageUnavailable when the
\* store fails); every attempt counted found the version changed, Conflict comes
\* only after MaxAttempts such attempts, and the steps of a call that ends in
\* Conflict change neither the version, the live content nor a snapshot.
C17_CommitEditTerminates ==
    /\ [](\A e \in Editors : ed[e].attempts < MaxAttempts)
    /\ [][EditStep]_vars
    /\ \A e \in Editors : (ed[e].pc = "cas") ~> (ed[e].pc = "idle")

\* a call gave up with Conflict after two others had committed over it
C17_ConflictAfterRetries ==
    /\ Answered("commit_edit", "Conflict")
    /\ \E d \in DOMAIN docs : docs[d].doc_version = DefaultDocVersion + MaxAttempts
    /\ Len(edLog) = MaxAttempts
    /\ \A e \in Editors : ed[e].pc = "idle"

\* the versions of d that have an archived snapshot
Archived(d) == { v \in SnapVersions : HasSnapshot(d, v) }

\* a step of get_snapshot: its answer, the store and every call in flight as they were
SnapStep ==
    /\ resp'.op = "get_snapshot"
    /\ UNCHANGED <<storeVars, procVars, edLog, edCalls>>

CreatedInHourTo(t) ==
    { d \in DOMAIN docs : docs[d].created_at > t - HourTicks /\ docs[d].created_at <= t }

\* C21: at most 30 documents are created from one client ip within any one-hour
\* window (ClientIps holds a single ip, so every document is that client's).
C21_AtMostThirtyUploadsPerHour ==
    \A t \in 0..MaxClock : Cardinality(CreatedInHourTo(t)) <= RATE_LIMIT_PER_HOUR

\* the comments of one client stamped in the hour that ends at time t
PostedInHourTo(ip, t) ==
    { i \in 1..Len(comments) :
        /\ comments[i].ip_hash = sha256(ip)
        /\ comments[i].created_at > t - HourTicks
        /\ comments[i].created_at <= t }

\* C22: under every interleaving of the post requests of one client ip, the stored
\* comments carrying its hash with created_at inside one hour never exceed 10.
C22_AtMostTenCommentsPerHour ==
    \A ip \in ClientIps, t \in 0..MaxClock :
        Cardinality(PostedInHourTo(ip, t)) <= COMMENT_RATE_LIMIT_PER_HOUR

(***************************************************************************)
(* The sidebar of a page over a stored comment list                        *)
(***************************************************************************)
T_Ctor  == <<"C","o","n","s","t","r","u","c","t","o","r">>
MD_Ctor == [length |-> 18, nodes |-> <<Paragraph(T_Intro), Paragraph(T_Ctor)>>]

MaxGroup == 3      \* comments stored before the page opens

\* the documents a page is opened on
GroupDocs == {MD_Empty, MD_Ctor}

\* the anchors stored comments carry: the general one and those of the documents
GroupAnchors ==
    {DOC_ROOT} \cup UNION { {a[i] : i \in 1..Len(a)} : a \in {addStableAnchorIds(m.nodes) : m \in GroupDocs} }

\* comment rows as POST /:docId left them: ids in insertion order, created_at never decreasing
StoredComments ==
    UNION { { [i \in 1..n |-> CommentRow(i, "d1", trim(A_Name), A_Body, a[i], t[i], "ip1", 1)] :
                a \in [1..n -> GroupAnchors],
                t \in { u \in [1..n -> 0..MaxClock] : \A i, j \in 1..n : i < j => u[i] <= u[j] } } :
            n \in 0..MaxGroup }

InitGroup ==
    /\ \E md \in GroupDocs :
         /\ docs = ("d1" :> NewDocRow("d1", md, 0))
         /\ bucket = Put(<<>>, LiveKey("d1"), md)
    /\ comments \in StoredComments
    /\ clock = MaxClock
    /\ InitProcs
    /\ IdleAnchor

NextGroup ==
    \/ OpenPage("d1")
    \/ LoadComments
    \/ PostComment

SpecGroup == InitGroup /\ [][NextGroup]_vars

\* C23: grouping the comments of a page by anchor never raises an error, and an
\* empty comment list yields no groups
C23_GroupingNeverErrors ==
    /\ ~view.threw
    /\ (view.loaded /\ view.allComments = <<>>) => view.sidebar = <<>>

\* the positions in the comment list of the comments that carry anchor aid
PositionsOf(all, aid) == { i \in 1..Len(all) : AidOf(all[i]) = aid }

\* the k-th of them, counting from the front of the list
NthOf(all, aid, k) ==
    CHOOSE i \in PositionsOf(all, aid) : Cardinality({ j \in PositionsOf(all, aid) : j < i }) = k - 1

RECURSIVE SumOfSizes(_)
SumOfSizes(sections) ==
    IF sections = <<>> THEN 0 ELSE Len(sections[1].list) + SumOfSizes(Tail(sections))

\* C29: the sidebar conserves the comments: the count shown is the length of the
\* comment list, every comment of the list belongs to exactly one rendered
\* group, and the groups together hold as many items as the list
C29_EveryCommentInOneGroup ==
    /\ view.count = Len(view.allComments)
    /\ \A i \in 1..Len(view.allComments) :
          Cardinality({ s \in 1..Len(view.sidebar) : view.order[s] = AidOf(view.allComments[i]) }) = 1
    /\ SumOfSizes(view.sidebar) = Len(view.allComments)

(***************************************************************************)
(* One document rendered before and after an edit                          *)
(***************************************************************************)
T_DocRoot == <<"D","o","c"," ","r","o","o","t">>

\* the nodes of the documents: two base slugs, and one whose slug is a suffixed id
EditNodes == { Paragraph(T_Intro), Paragraph(T_DocRoot), Paragraph(T_Intro2) }

EditHtml == UNION { [1..n -> EditNodes] : n \in 0..MaxNodes }

InitRerender ==
    /\ html \in EditHtml
    /\ used = <<>>
    /\ ids = <<>>
    /\ passes = <<>>
    /\ IdleSlug
    /\ InitStore /\ InitProcs

\* the render of the content as it stands after an edit
RenderEdited(h) ==
    /\ passes = <<>>
    /\ RenderAgain(h)

NextRerender ==
    \/ AnchorStep
    \/ \E h \in EditHtml : RenderEdited(h)

SpecRerender == InitRerender /\ [][NextRerender]_vars

\* C28: no id the assigner gives to a content node is the general anchor doc-root
C28_NoAnchorIsDocRoot ==
    \A k \in Assigned : ids[k] # DOC_ROOT

\* the ids of the render after the edit
EditedIds == passes[1].ids

\* the content after the edit
EditedHtml == passes[1].html

\* the number of nodes of h before position k that have the base slug of h[k]
Preceding(h, k) == Cardinality({ l \in 1..(k - 1) : BaseSlug(h[l]) = BaseSlug(h[k]) })

\* both renders are complete
BothRendered == Len(ids) = Len(html) /\ passes # <<>>

\* C27: a node's anchor is determined by its base slug and the number of nodes
\* with that base slug before it: a node of the edited content with the same
\* base slug and the same number of such predecessors has the same anchor,
\* whatever else the edit added, removed or changed
C27_AnchorDependsOnBaseAndRank ==
    BothRendered =>
        \A i \in 1..Len(html), j \in 1..Len(EditedHtml) :
            (/\ BaseSlug(html[i]) = BaseSlug(EditedHtml[j])
             /\ Preceding(html, i) = Preceding(EditedHtml, j))
            => ids[i] = EditedIds[j]

\* an edit put a node with another base slug in front and changed the node
\* at the end; the second of two equal nodes kept its suffixed anchor
C27_OtherNodesChanged ==
    /\ BothRendered
    /\ Len(html) = 3 /\ Len(EditedHtml) = 3
    /\ BaseSlug(html[1]) = BaseSlug(html[2])
    /\ BaseSlug(html[3]) # BaseSlug(html[1])
    /\ BaseSlug(EditedHtml[1]) # BaseSlug(html[1])
    /\ EditedHtml[2] = html[1] /\ EditedHtml[3] = html[2]
    /\ ids[2] = EditedIds[3]
    /\ ids[2] # BaseSlug(html[2])

\* the content h without its node at position r
RemoveAt(h, r) == SubSeq(h, 1, r - 1) \o SubSeq(h, r + 1, Len(h))

\* where the node at position i of the content stands once the node at r is removed
AfterRemoval(i, r) == IF i < r THEN i ELSE i - 1

\* the nodes of the edited render that carry the id a
CarryingId(a) == { j \in 1..Len(EditedIds) : EditedIds[j] = a }

\* C25: when an edit removes a node and nothing else, every later node with the
\* removed node's base slug gets another anchor, and the anchor it had is carried
\* by no node of the new render, so its comments point at no passage
C25_ShiftedCommentsOrphaned ==
    BothRendered =>
        \A r \in 1..Len(html) :
            EditedHtml = RemoveAt(html, r) =>
                \A i \in (r + 1)..Len(html) :
                    BaseSlug(html[i]) = BaseSlug(html[r]) =>
                        /\ EditedIds[AfterRemoval(i, r)] # ids[i]
                        /\ CarryingId(ids[i]) = {}

(***************************************************************************)
(* The MCP client: plsreadme_share_file and the .plsreadme record file     *)
(***************************************************************************)
\* process.cwd(), a path being the sequence of its segments, "/" first when absolute
Cwd == <<"/", "w">>

IsAbsolute(p) == p # <<>> /\ p[1] = "/"

\* path normalisation: "." dropped, ".." taking the segment before it
RECURSIVE Normalize(_, _)
Normalize(segs, acc) ==
    IF segs = <<>> THEN acc
    ELSE IF segs[1] = "." THEN Normalize(Tail(segs), acc)
    ELSE IF segs[1] = ".."
         THEN Normalize(Tail(segs), IF Len(acc) > 1 THEN SubSeq(acc, 1, Len(acc) - 1) ELSE acc)
    ELSE Normalize(Tail(segs), Append(acc, segs[1]))

\* path.resolve(from, to)
resolve(from, to) ==
    IF IsAbsolute(to) THEN Normalize(Tail(to), <<"/">>) ELSE Normalize(to, from)

\* path.basename
basename(p) == p[Len(p)]

\* the files on disk, by absolute path
Files ==
    (<<"/", "w", "a.md">> :> MD_TwoIntro) @@ (<<"/", "w", "b.md">> :> MD_OneIntro)

\* the file_path arguments a caller gives: three spellings of one file, another
\* file, and a file that does not exist
FilePaths ==
    { <<"a.md">>, <<".", "a.md">>, <<"/", "w", "a.md">>, <<"b.md">>, <<"c.md">> }

MaxCreated == 3      \* documents the API creates for the client

\* source: null of a record made by plsreadme_share_text
NoSource == <<>>

UrlOf(id) == <<"https://plsreadme.com/v", id>>

\* the DocRecord saved after apiCreate answered with id
DocRecord(id, title, source, now) ==
    [ id |-> id, url |-> UrlOf(id), raw_url |-> <<"raw", id>>, admin_token |-> <<"token", id>>,
      title |-> title, source |-> source, created_at |-> now ]

\* Array.prototype.findIndex, counted from 1 (0: not found)
FindIndex(rs, Test(_)) ==
    IF \E i \in 1..Len(rs) : Test(rs[i])
    THEN CHOOSE i \in 1..Len(rs) : Test(rs[i]) /\ \A j \in 1..(i - 1) : ~Test(rs[j])
    ELSE 0

\* saveRecord: replaces the record with the same id, or adds one at the end
saveRecord(rs, record) ==
    LET idx == FindIndex(rs, LAMBDA r : r.id = record.id)
    IN  IF idx > 0 THEN [rs EXCEPT ![idx] = record] ELSE Append(rs, record)

\* getRecordById: the index of the record found (0: undefined)
getRecordById(rs, id) == FindIndex(rs, LAMBDA r : r.id = id)

\* getRecordBySource: the index of the record found (0: undefined)
getRecordBySource(rs, source) ==
    LET abs == resolve(Cwd, source)
    IN  FindIndex(rs, LAMBDA r : r.source = source \/ r.source = abs)

\* getRecordBySource(file_path) || getRecordBySource(absolutePath)
LookupByPath(rs, p) ==
    IF getRecordBySource(rs, p) # 0 THEN getRecordBySource(rs, p)
    ELSE getRecordBySource(rs, resolve(Cwd, p))

\* removeRecord
removeRecord(rs, id) == SelectSeq(rs, LAMBDA r : r.id # id)

\* what a tool call answered: formatSuccess on a created or updated document, or formatError
ToolOk(op, kind, id) == ResponseWith(op, "ok", <<kind, id, UrlOf(id)>>)
ToolError(op) == Response(op, "error")

\* apiCreate answered: the server inserted a document under a new id
Created(id, md) ==
    /\ docs' = (id :> NewDocRow(id, md, clock)) @@ docs
    /\ bucket' = Put(bucket, LiveKey(id), md)

\* plsreadme_share_file; `up` is whether the API call it makes succeeds
ShareFile(p, up) ==
    LET absolutePath == resolve(Cwd, p)
        existing     == LookupByPath(records, p)
        id           == CHOOSE d \in AllDocIds : d \notin DOMAIN docs
    IN  /\ req' = Request("share_file", NoDoc, p)
        /\ IF absolutePath \notin DOMAIN Files \/ ~up
           THEN resp' = ToolError("share_file") /\ UNCHANGED <<records, docs, bucket>>
           ELSE IF existing # 0
           THEN /\ records' = saveRecord(records, [records[existing] EXCEPT !.title = basename(p)])
                /\ resp' = ToolOk("share_file", "updated", records[existing].id)
                /\ UNCHANGED <<docs, bucket>>
           ELSE /\ Cardinality(DOMAIN docs) < MaxCreated
                /\ Created(id, Files[absolutePath])
                /\ records' = saveRecord(records, DocRecord(id, basename(p), p, clock))
                /\ resp' = ToolOk("share_file", "created", id)
        /\ UNCHANGED <<comments, clock, procVars, edLog, edCalls, anchorVars, view>>

\* plsreadme_share_text
ShareText(up) ==
    LET id == CHOOSE d \in AllDocIds : d \notin DOMAIN docs
    IN  /\ req' = Request("share_text", NoDoc, <<>>)
        /\ IF ~up
           THEN resp' = ToolError("share_text") /\ UNCHANGED <<records, docs, bucket>>
           ELSE /\ Cardinality(DOMAIN docs) < MaxCreated
                /\ Created(id, MD_OneIntro)
                /\ records' = saveRecord(records, DocRecord(id, "Untitled", NoSource, clock))
                /\ resp' = ToolOk("share_text", "created", id)
        /\ UNCHANGED <<comments, clock, procVars, edLog, edCalls, anchorVars, view>>

\* the record plsreadme_update and plsreadme_delete work on: by id when one is
\* given, else by file path
Wanted(id, p) ==
    IF id # NoDoc THEN getRecordById(records, id)
    ELSE IF p # <<>> THEN LookupByPath(records, p)
    ELSE 0

\* plsreadme_update
UpdateDoc(id, p, up) ==
    /\ req' = Request("update", id, p)
    /\ IF Wanted(id, p) = 0 \/ ~up
       THEN resp' = ToolError("update") /\ UNCHANGED records
       ELSE /\ records' = saveRecord(records, records[Wanted(id, p)])
            /\ resp' = ToolOk("update", "updated", records[Wanted(id, p)].id)
    /\ UNCHANGED <<storeVars, procVars, edLog, edCalls, anchorVars, view>>

\* plsreadme_delete
DeleteDoc(id, p, up) ==
    /\ req' = Request("delete", id, p)
    /\ IF Wanted(id, p) = 0 \/ ~up
       THEN resp' = ToolError("delete") /\ UNCHANGED records
       ELSE /\ records' = removeRecord(records, records[Wanted(id, p)].id)
            /\ resp' = ToolOk("delete", "deleted", records[Wanted(id, p)].id)
    /\ UNCHANGED <<storeVars, procVars, edLog, edCalls, anchorVars, view>>

\* the arguments of plsreadme_update and plsreadme_delete: the id of a document
\* the API created, or a file path, or neither
ToolTargets ==
    { [id |-> d, file_path |-> <<>>] : d \in DOMAIN docs \cup {NoDoc} }
    \cup { [id |-> NoDoc, file_path |-> p] : p \in {<<"a.md">>, <<"/", "w", "a.md">>} }

NextMcp ==
    \/ \E p \in FilePaths, up \in BOOLEAN : ShareFile(p, up)
    \/ \E up \in BOOLEAN : ShareText(up)
    \/ \E a \in ToolTargets, up \in BOOLEAN : UpdateDoc(a.id, a.file_path, up)
    \/ \E a \in ToolTargets, up \in BOOLEAN : DeleteDoc(a.id, a.file_path, up)

SpecMcp == Init /\ [][NextMcp]_vars

\* the records of documents shared from the file that path p names
RecordsOfFile(p) ==
    { i \in 1..Len(records) :
        records[i].source # NoSource /\ resolve(Cwd, records[i].source) = resolve(Cwd, p) }

\* the step is a plsreadme_share_file call on p that succeeded
SharedOk(p) ==
    /\ req' = Request("share_file", NoDoc, p)
    /\ resp'.op = "share_file" /\ resp'.status = "ok"
    /\ <<req, resp, records, docs>> # <<req', resp', records', docs'>>

\* C24: a successful plsreadme_share_file of a file that has a record from an
\* earlier share, under whatever spelling of its path, updates the document of
\* that record and answers its URL, and creates no document
C24_ReshareUpdatesSameDoc ==
    [][ \A p \in FilePaths :
          (SharedOk(p) /\ RecordsOfFile(p) # {})
          => /\ \E i \in RecordsOfFile(p) : resp' = ToolOk("share_file", "updated", records[i].id)
             /\ docs' = docs ]_vars

\* after any sequence of tool calls the record file holds one record per document id at most
OneRecordPerId ==
    \A i, j \in 1..Len(records) : i # j => records[i].id # records[j].id

(***************************************************************************)
(* POST /api/render handlers that overlap                                  *)
(***************************************************************************)
NumPublishers == 2      \* POST /api/render requests in flight at once

Publishers == 1..NumPublishers

InitPublish ==
    /\ InitStore /\ IdleAnchor
    /\ pub = [q \in Publishers |-> IdlePub]
    /\ ed = [e \in Editors |-> IdleEd]
    /\ cm = [p \in Commenters |-> IdleCm]
    /\ resp = NoResponse /\ edLog = <<>> /\ edCalls = 0
    /\ view = NoView /\ req = NoRequest /\ records = <<>>

\* handler q up to its first store call: validation, the rate limit, nanoid(10);
\* an id a row already has is not drawn, one another handler holds can be
PubCheckOf(q, md, ip) ==
    /\ pub[q].pc \in {"idle", "done"}
    /\ IF md.length = 0 \/ md.length > MAX_FILE_SIZE
       THEN pub' = [pub EXCEPT ![q] = DonePub] /\ resp' = Response("publish", "400")
       ELSE IF ~checkRateLimit(ip, clock)
       THEN pub' = [pub EXCEPT ![q] = DonePub] /\ resp' = Response("publish", "429")
       ELSE /\ \E d \in DocIds :
                 /\ d \notin DOMAIN docs
                 /\ pub' = [pub EXCEPT ![q] = [pc |-> "put", id |-> d, markdown |-> md, now |-> clock]]
            /\ UNCHANGED resp
    /\ UNCHANGED <<storeVars, ed, cm, edLog, edCalls, anchorVars, records, view, req>>

\* handler q: DOCS_BUCKET.put(r2Key, markdown)
PubPutOf(q) ==
    /\ pub[q].pc = "put"
    /\ bucket' = Put(bucket, LiveKey(pub[q].id), pub[q].markdown)
    /\ pub' = [pub EXCEPT ![q].pc = "insert"]
    /\ UNCHANGED <<docs, comments, clock, ed, cm, obsVars, anchorVars, records, view, req>>

\* handler q: INSERT INTO docs; id is the primary key, a second row with it is refused
PubInsertOf(q) ==
    /\ pub[q].pc = "insert"
    /\ pub' = [pub EXCEPT ![q] = DonePub]
    /\ IF pub[q].id \in DOMAIN docs
       THEN resp' = Response("publish", "500") /\ UNCHANGED docs
       ELSE /\ docs' = (pub[q].id :> NewDocRow(pub[q].id, pub[q].markdown, pub[q].now)) @@ docs
            /\ resp' = Response("publish", "200")
    /\ UNCHANGED <<bucket, comments, clock, ed, cm, edLog, edCalls, anchorVars, records, view, req>>

\* handler q: a store call throws, the catch block answers 500
PubFailOf(q) ==
    /\ pub[q].pc \in {"put", "insert"}
    /\ pub' = [pub EXCEPT ![q] = DonePub]
    /\ resp' = Response("publish", "500")
    /\ UNCHANGED <<storeVars, ed, cm, edLog, edCalls, anchorVars, records, view, req>>

NextPublish ==
    \/ \E q \in Publishers, md \in PublishInputs, ip \in ClientIps : PubCheckOf(q, md, ip)
    \/ \E q \in Publishers : PubPutOf(q)
    \/ \E q \in Publishers : PubInsertOf(q)
    \/ \E q \in Publishers : PubFailOf(q)
    \/ \E d \in DocIds : RenderDoc(d)
    \/ Tick

SpecPublish == InitPublish /\ [][NextPublish]_vars

\* C30: every row of docs has its blob in the bucket under the row's key, and
\* the page handler never answers that the content of a known document is missing
C30_RowHasBlob ==
    /\ \A d \in DOMAIN docs : docs[d].r2_key \in DOMAIN bucket
    /\ ~Answered("render", "500")

\* a publish failed between its two writes and left a blob without a row,
\* while another publish completed and its document was rendered
C30_FailedBetweenWrites ==
    /\ \E k \in DOMAIN bucket : \A d \in DOMAIN docs : docs[d].r2_key # k
    /\ \E q \in Publishers : pub[q].pc = "insert"
    /\ DOMAIN docs # {}
    /\ Answered("render", "200")
====
